---- MODULE Spec2Model ----
(***************************************************************************)
(* ice_melt() of IceMelt.c (VIC lake model): one call of the snow / lake   *)
(* ice melt step, as a state machine over the phases of the function.      *)
(*                                                                         *)
(* Arithmetic is exact.  Every mass (m of water equivalent) is an integer  *)
(* number of base units; the inputs are multiples of MassUnit, chosen so   *)
(* that LIQUID_WATER_CAPACITY * SnowIce is an integer wherever the code    *)
(* computes it.  The code is piecewise linear in the masses, so a scenario *)
(* given in metres is represented by the same proportions in MassUnit.     *)
(*   - lake->hice (m of ice) is held in units of 1/RHOICE base unit, so    *)
(*     hice * RHOICE / RHO_W is hice \div RHO_W and                        *)
(*     LakeIce * RHO_W / RHOICE is LakeIce * RHO_W;                        *)
(*   - rainfall, snowfall and the returned melt are in mm: 1000 per m;     *)
(*   - RefreezeEnergy is held in units of Lf * RHO_W / SECPHOUR per base   *)
(*     unit, so RefreezeEnergy / (Lf * RHO_W) * delta_t * SECPHOUR is      *)
(*     RefreezeEnergy * delta_t;                                           *)
(*   - fracprv and lake->fraci are held in percent, lake->volume in units  *)
(*     of base unit * surface unit / 100.                                  *)
(***************************************************************************)
EXTENDS Integers, FiniteSets, Sequences, TLC

\* ---- program constants -------------------------------------------------
\* LIQUID_WATER_CAPACITY = 0.035 = LWC_NUM / LWC_DEN
LWC_NUM == 7
LWC_DEN == 200
RHO_W == 1000
RHOICE == 917
\* the literal 1000. that converts mm <-> m
MM_PER_M == 1000
\* root_brent failure: a surface temperature at or below this value
SOLVER_SENTINEL == -9998

\* ---- resolution and bounds of the model --------------------------------
MassUnit == LWC_DEN * LWC_DEN
MaxSnowIce == 1
MaxHice == 5
MaxMeltEnergy == 5
MaxSublimation == 3

\* a content of the caller's output buffers that no write of the step produces
Unwritten == MassUnit \div 16

Max(a, b) == IF a >= b THEN a ELSE b
Min(a, b) == IF a <= b THEN a ELSE b
Abs(a) == IF a >= 0 THEN a ELSE 0 - a

VARIABLES
  pc,                   \* phase of the call
  \* snow_data_struct
  swq, surf_water, snow_vapor_flux, snow_surface_flux, snow_blowing_flux,
  surf_temp, mass_error,
  \* lake_var_struct
  hice, fraci, volume,
  \* forcing
  rainfall, snowfall, delta_t, fracprv, surface0,
  \* output parameters
  melt, save_refreeze_energy, save_Qnet, save_diag,
  \* locals of ice_melt
  SnowFall, RainFall, InitialSwq, InitialIce, SnowIce, LakeIce,
  Qnet, RefreezeEnergy, RefrozenWater, SnowMelt, IceMelt,
  vapor_flux, surface_flux, diag,
  \* history: the caller's structs at entry, the path taken, the calls made
  pre, branch, vcase, mcase, nEval, nSolve

snowVars == <<swq, surf_water, snow_vapor_flux, snow_surface_flux,
              snow_blowing_flux, surf_temp, mass_error>>
lakeVars == <<hice, fraci, volume>>
forcingVars == <<rainfall, snowfall, delta_t, fracprv, surface0>>
outVars == <<melt, save_refreeze_energy, save_Qnet, save_diag>>
localVars == <<SnowFall, RainFall, InitialSwq, InitialIce, SnowIce, LakeIce,
               Qnet, RefreezeEnergy, RefrozenWater, SnowMelt, IceMelt,
               vapor_flux, surface_flux, diag>>
histVars == <<pre, branch, vcase, mcase, nEval, nSolve>>
vars == <<pc, snowVars, lakeVars, forcingVars, outVars, localVars, histVars>>

\* ---- values the external collaborators may return ----------------------
\* IceEnergyBalance: sign of the net energy, refreeze energy, vapor flux
QnetValues == {-1, 0, 1}
RefreezeValues == {k * MassUnit : k \in (0 - MaxMeltEnergy)..1}
VaporValues == {k * MassUnit : k \in (0 - MaxSublimation)..1}
\* root_brent: the two failure values, or a temperature below freezing
RootValues == {-9999, SOLVER_SENTINEL, -1}

\* ---- forcing of one call ------------------------------------------------
DeltaTValues == {1, 2}
PrecipValues == {0, MassUnit * MM_PER_M}
FracValues == {50, 100}
SurfaceValues == {3}

\* ---- the caller's state at entry ---------------------------------------
LiquidCapacity(ice) == (LWC_NUM * ice) \div LWC_DEN

\* no liquid, the liquid the pack can hold, or more than it can hold
SurfWaterValues(ice) == {0, LiquidCapacity(ice), MassUnit}

\* what a call finds besides the pack, the ice and the forcing: the caller's
\* lake geometry, the output slots not yet written, the locals of lines 120-160
CallEntry ==
  /\ pc = "Start"
  /\ volume = 0
  /\ fracprv \in FracValues
  \* the ice-covered fraction of the previous step is the one the lake holds
  /\ fraci = fracprv
  /\ surface0 \in SurfaceValues
  /\ snow_vapor_flux = 0
  /\ snow_surface_flux = 0
  /\ snow_blowing_flux = 0
  /\ surf_temp = -3
  /\ mass_error = Unwritten
  /\ melt = Unwritten
  /\ save_refreeze_energy = Unwritten
  /\ save_Qnet = Unwritten
  /\ save_diag = Unwritten
  /\ SnowFall = 0 /\ RainFall = 0 /\ InitialSwq = 0 /\ InitialIce = 0
  /\ SnowIce = 0 /\ LakeIce = 0 /\ Qnet = 0 /\ RefreezeEnergy = 0
  /\ RefrozenWater = 0 /\ SnowMelt = 0 /\ IceMelt = 0
  /\ vapor_flux = 0 /\ surface_flux = 0 /\ diag = 0
  /\ pre = [swq |-> swq, surf_water |-> surf_water, hice |-> hice,
            fraci |-> fraci, volume |-> volume]
  /\ branch = "none" /\ vcase = "none" /\ mcase = "none"
  /\ nEval = 0 /\ nSolve = 0

Init ==
  /\ \E ice \in {k * MassUnit : k \in 0..MaxSnowIce} :
       \E w \in SurfWaterValues(ice) :
         /\ swq = ice + w
         /\ surf_water = w
  /\ hice \in {k * MassUnit * RHO_W : k \in 0..MaxHice}
  /\ rainfall \in PrecipValues
  /\ snowfall \in PrecipValues
  /\ delta_t \in DeltaTValues
  /\ CallEntry

\* entry states outside the preconditions as well: a surf_water that is
\* negative or larger than swq (negative snow ice), a negative time step
InitAnyInput ==
  /\ swq \in {0, MassUnit}
  /\ surf_water \in {0 - MassUnit, 0, 2 * MassUnit}
  /\ hice \in {0, MassUnit * RHO_W}
  /\ rainfall \in PrecipValues
  /\ snowfall = 0
  /\ delta_t \in {-1, 1, 2}
  /\ CallEntry

\* the entry states of Init with one time step, no snowfall, thin or no ice
InitFewInputs ==
  /\ \E ice \in {k * MassUnit : k \in 0..MaxSnowIce} :
       \E w \in SurfWaterValues(ice) :
         /\ swq = ice + w
         /\ surf_water = w
  /\ hice \in {0, MassUnit * RHO_W}
  /\ rainfall \in PrecipValues
  /\ snowfall = 0
  /\ delta_t = 1
  /\ CallEntry

\* ---- Start: lines 168-196 ----------------------------------------------
Start ==
  /\ pc = "Start"
  /\ SnowFall' = snowfall \div MM_PER_M
  /\ RainFall' = rainfall \div MM_PER_M
  /\ IceMelt' = 0
  /\ RefrozenWater' = 0
  /\ InitialSwq' = swq
  /\ SnowIce' = (swq - surf_water) + snowfall \div MM_PER_M
  /\ LakeIce' = hice \div RHO_W
  /\ InitialIce' = hice \div RHO_W
  /\ surf_water' = surf_water + rainfall \div MM_PER_M
  /\ snow_blowing_flux' = 0
  /\ vapor_flux' = snow_vapor_flux
  /\ surface_flux' = snow_surface_flux
  /\ pc' = "ComputeSurfaceFluxAtFreezing"
  /\ UNCHANGED <<swq, snow_vapor_flux, snow_surface_flux, surf_temp, mass_error,
                 lakeVars, forcingVars, outVars, Qnet, RefreezeEnergy, SnowMelt,
                 diag, histVars>>

\* ---- ComputeSurfaceFluxAtFreezing: lines 201-218 ------------------------
\* the test of line 218 that selects the branch
TakesIsothermal(q) == q = 0

ComputeSurfaceFluxAtFreezing ==
  /\ pc = "ComputeSurfaceFluxAtFreezing"
  /\ \E q \in QnetValues, re \in RefreezeValues, v \in VaporValues :
       /\ Qnet' = q
       /\ RefreezeEnergy' = re
       /\ vapor_flux' = v
       /\ surface_flux' = v
       /\ snow_vapor_flux' = v
       /\ snow_surface_flux' = v
       /\ save_refreeze_energy' = re
       /\ pc' = IF TakesIsothermal(q) THEN "Isothermal" ELSE "SolveSubfreezing"
  /\ diag' = 1
  /\ nEval' = nEval + 1
  /\ UNCHANGED <<swq, surf_water, snow_blowing_flux, surf_temp, mass_error,
                 lakeVars, forcingVars, melt, save_Qnet, save_diag,
                 SnowFall, RainFall, InitialSwq, InitialIce, SnowIce, LakeIce,
                 RefrozenWater, SnowMelt, IceMelt,
                 pre, branch, vcase, mcase, nSolve>>

\* ---- Isothermal: lines 219-241 -----------------------------------------
\* energy (W/m2) over the time step to a depth of water: lines 221-222, 238-239
EnergyToWater(re, dt) == re * dt

\* variant: the refrozen water is not capped at the surface liquid water
RefrozenWaterOf_Uncapped(re, dt, w) == EnergyToWater(re, dt)

\* lines 221-227: the refrozen water, capped at the surface liquid water
RefrozenWaterOf(re, dt, w) == Min(EnergyToWater(re, dt), w)

\* line 232: assert(snow->surf_water >= 0.0)
AssertHolds(w) == w >= 0

Isothermal ==
  /\ pc = "Isothermal"
  /\ surf_temp' = 0
  /\ IF RefreezeEnergy >= 0
       THEN LET r == RefrozenWaterOf(RefreezeEnergy, delta_t, surf_water) IN
            /\ RefrozenWater' = r
            /\ RefreezeEnergy' = IF EnergyToWater(RefreezeEnergy, delta_t) > surf_water
                                   THEN r \div delta_t ELSE RefreezeEnergy
            /\ swq' = swq + r
            /\ SnowIce' = SnowIce + r
            /\ surf_water' = surf_water - r
            /\ IF AssertHolds(surf_water - r)
                 THEN SnowMelt' = 0 /\ pc' = "ReconcileReservoirs"
                 ELSE SnowMelt' = SnowMelt /\ pc' = "Aborted"
       ELSE /\ SnowMelt' = EnergyToWater(Abs(RefreezeEnergy), delta_t)
            /\ pc' = "ReconcileReservoirs"
            /\ UNCHANGED <<RefrozenWater, RefreezeEnergy, swq, SnowIce, surf_water>>
  /\ branch' = "iso"
  /\ UNCHANGED <<snow_vapor_flux, snow_surface_flux, snow_blowing_flux, mass_error,
                 lakeVars, forcingVars, outVars,
                 SnowFall, RainFall, InitialSwq, InitialIce, LakeIce, Qnet, IceMelt,
                 vapor_flux, surface_flux, diag, pre, vcase, mcase, nEval, nSolve>>

\* ---- the thermal mass handed to the residual function -------------------
\* lines 205, 305, 319, 332: the argument SweSurfaceLayer
SweSurfaceLayerArg == swq + LakeIce

\* lines 206, 306, 320, 333: the argument SurfaceLiquidWater
SurfaceLiquidWaterArg == surf_water

\* ---- SolveSubfreezing: lines 298-356 -----------------------------------
\* variant: the boundary value -9998 is taken for a converged temperature
SolverFailed_Strict(t) == t < SOLVER_SENTINEL

\* line 314: root_brent did not converge
SolverFailed(t) == t <= SOLVER_SENTINEL

\* variant: a failed solve is retried once
SolveSubfreezing_Retry ==
  /\ pc = "SolveSubfreezing"
  /\ nSolve' = nSolve + 1
  /\ branch' = "sub"
  /\ \E t \in RootValues :
       /\ surf_temp' = t
       /\ IF SolverFailed(t)
            THEN \* one more attempt before the fatal path
                 /\ pc' = IF nSolve = 0 THEN "SolveSubfreezing" ELSE "Fatal"
                 /\ diag' = 2
                 /\ UNCHANGED <<swq, surf_water, snow_vapor_flux, snow_surface_flux,
                                save_refreeze_energy, Qnet, RefreezeEnergy,
                                RefrozenWater, SnowMelt, SnowIce,
                                vapor_flux, surface_flux, nEval>>
            ELSE \E q \in QnetValues, re \in RefreezeValues, v \in VaporValues :
                 /\ Qnet' = q
                 /\ RefreezeEnergy' = re
                 /\ vapor_flux' = v
                 /\ surface_flux' = v
                 /\ snow_vapor_flux' = v
                 /\ snow_surface_flux' = v
                 /\ save_refreeze_energy' = re
                 /\ diag' = 3
                 /\ nEval' = nEval + 1
                 /\ SnowMelt' = 0
                 /\ SnowIce' = SnowIce + surf_water
                 /\ RefrozenWater' = surf_water
                 /\ surf_water' = 0
                 /\ pc' = "ReconcileReservoirs"
                 /\ UNCHANGED swq
  /\ UNCHANGED <<snow_blowing_flux, mass_error, lakeVars, forcingVars,
                 melt, save_Qnet, save_diag,
                 SnowFall, RainFall, InitialSwq, InitialIce, LakeIce, IceMelt,
                 pre, vcase, mcase>>

\* lines 298-356: the solver, the fatal path, the evaluation at the root
SolveSubfreezing ==
  /\ pc = "SolveSubfreezing"
  /\ nSolve' = nSolve + 1
  /\ branch' = "sub"
  /\ \E t \in RootValues :
       /\ surf_temp' = t
       /\ IF SolverFailed(t)
            THEN \* ErrorPrintIcePackEnergyBalance: dump and exit(0)
                 /\ pc' = "Fatal"
                 /\ diag' = 2
                 /\ UNCHANGED <<swq, surf_water, snow_vapor_flux, snow_surface_flux,
                                save_refreeze_energy, Qnet, RefreezeEnergy,
                                RefrozenWater, SnowMelt, SnowIce,
                                vapor_flux, surface_flux, nEval>>
            ELSE \E q \in QnetValues, re \in RefreezeValues, v \in VaporValues :
                 /\ Qnet' = q
                 /\ RefreezeEnergy' = re
                 /\ vapor_flux' = v
                 /\ surface_flux' = v
                 /\ snow_vapor_flux' = v
                 /\ snow_surface_flux' = v
                 /\ save_refreeze_energy' = re
                 /\ diag' = 3
                 /\ nEval' = nEval + 1
                 /\ SnowMelt' = 0
                 /\ SnowIce' = SnowIce + surf_water
                 /\ RefrozenWater' = surf_water
                 /\ surf_water' = 0
                 /\ pc' = "ReconcileReservoirs"
                 /\ UNCHANGED swq
  /\ UNCHANGED <<snow_blowing_flux, mass_error, lakeVars, forcingVars,
                 melt, save_Qnet, save_diag,
                 SnowFall, RainFall, InitialSwq, InitialIce, LakeIce, IceMelt,
                 pre, vcase, mcase>>

\* ---- ReconcileReservoirs: lines 244-291 and 358-380 ---------------------
\* variant: the vapor flux is taken from the snow ice first
VaporAdjustIso_SnowFirst(s, w, l, v, b, frac, area) ==
  IF (s + w + l) < 0 - v
    THEN [SnowIce |-> 0, surf_water |-> w, LakeIce |-> 0,
          vapor_flux |-> 0 - (s + w + l), blowing_flux |-> 0,
          surface_flux |-> 0 - (s + w + l),
          dv |-> 0 - l * frac * area, vcase |-> "clamp"]
    ELSE IF (s + w) < 0 - v /\ (s + w + l) > 0 - v
    THEN [SnowIce |-> 0, surf_water |-> w, LakeIce |-> l + (v + s),
          vapor_flux |-> v, blowing_flux |-> b, surface_flux |-> v,
          dv |-> area * frac * (v + s), vcase |-> "lake"]
    ELSE IF 0 - v > s
    THEN [SnowIce |-> 0, surf_water |-> w + (v + s), LakeIce |-> l,
          vapor_flux |-> v, blowing_flux |-> b, surface_flux |-> v,
          dv |-> 0, vcase |-> "liquid"]
    ELSE [SnowIce |-> s + v, surf_water |-> w, LakeIce |-> l,
          vapor_flux |-> v, blowing_flux |-> b, surface_flux |-> v,
          dv |-> 0, vcase |-> "snow"]

\* variant: the draw on lake ice does not adjust lake->volume
VaporAdjustIso_LakeNoVolume(s, w, l, v, b, frac, area) ==
  IF (s + w + l) < 0 - v
    THEN [SnowIce |-> 0, surf_water |-> w, LakeIce |-> 0,
          vapor_flux |-> 0 - (s + w + l), blowing_flux |-> 0,
          surface_flux |-> 0 - (s + w + l),
          dv |-> 0 - l * frac * area, vcase |-> "clamp"]
    ELSE IF (s + w) < 0 - v /\ (s + w + l) > 0 - v
    THEN [SnowIce |-> 0, surf_water |-> w, LakeIce |-> l + (v + s),
          vapor_flux |-> v, blowing_flux |-> b, surface_flux |-> v,
          dv |-> 0, vcase |-> "lake"]
    ELSE IF 0 - v > w
    THEN [SnowIce |-> s + (v + w), surf_water |-> 0, LakeIce |-> l,
          vapor_flux |-> v, blowing_flux |-> b, surface_flux |-> v,
          dv |-> 0, vcase |-> "snow"]
    ELSE [SnowIce |-> s, surf_water |-> w + v, LakeIce |-> l,
          vapor_flux |-> v, blowing_flux |-> b, surface_flux |-> v,
          dv |-> 0, vcase |-> "liquid"]

\* lines 245-269: the vapor flux taken from the reservoirs, isothermal branch.
\* s, w, l: SnowIce, snow->surf_water, LakeIce; v, b: snow->vapor_flux,
\* snow->blowing_flux; dv: the change of lake->volume.
VaporAdjustIso(s, w, l, v, b, frac, area) ==
  IF (s + w + l) < 0 - v
    THEN LET b2 == (b * (0 - (s + w + l))) \div v IN
         [SnowIce |-> 0, surf_water |-> w, LakeIce |-> 0,
          vapor_flux |-> 0 - (s + w + l), blowing_flux |-> b2,
          surface_flux |-> (0 - (s + w + l)) - b2,
          dv |-> 0 - l * frac * area, vcase |-> "clamp"]
    ELSE IF (s + w) < 0 - v /\ (s + w + l) > 0 - v
    THEN [SnowIce |-> 0, surf_water |-> w, LakeIce |-> l + (v + s),
          vapor_flux |-> v, blowing_flux |-> b, surface_flux |-> v,
          dv |-> area * frac * (v + s), vcase |-> "lake"]
    ELSE IF 0 - v > w
    THEN [SnowIce |-> s + (v + w), surf_water |-> 0, LakeIce |-> l,
          vapor_flux |-> v, blowing_flux |-> b, surface_flux |-> v,
          dv |-> 0, vcase |-> "snow"]
    ELSE [SnowIce |-> s, surf_water |-> w + v, LakeIce |-> l,
          vapor_flux |-> v, blowing_flux |-> b, surface_flux |-> v,
          dv |-> 0, vcase |-> "liquid"]

\* variant: on complete melt the whole clamped snowmelt is recorded as IceMelt
MeltPartition_TotalAsIceMelt(s, w, l, m) ==
  IF m < s
    THEN [SnowIce |-> s - m, surf_water |-> w + m, LakeIce |-> l,
          SnowMelt |-> m, IceMelt |-> 0, mcase |-> "partial"]
    ELSE IF m >= s /\ m < (s + l)
    THEN [SnowIce |-> 0, surf_water |-> w + s, LakeIce |-> l - (m - s),
          SnowMelt |-> m, IceMelt |-> m - s, mcase |-> "pack"]
    ELSE [SnowIce |-> 0, surf_water |-> w + s, LakeIce |-> 0,
          SnowMelt |-> s + l, IceMelt |-> s + l, mcase |-> "through"]

\* lines 273-291: the snowmelt m taken from snow ice, then from lake ice
MeltPartition(s, w, l, m) ==
  IF m < s
    THEN [SnowIce |-> s - m, surf_water |-> w + m, LakeIce |-> l,
          SnowMelt |-> m, IceMelt |-> 0, mcase |-> "partial"]
    ELSE IF m >= s /\ m < (s + l)
    THEN [SnowIce |-> 0, surf_water |-> w + s, LakeIce |-> l - (m - s),
          SnowMelt |-> m, IceMelt |-> m - s, mcase |-> "pack"]
    ELSE [SnowIce |-> 0, surf_water |-> w + s, LakeIce |-> 0,
          SnowMelt |-> s + l, IceMelt |-> l, mcase |-> "through"]

\* lines 359-380: the vapor flux taken from the reservoirs, subfreezing branch
VaporAdjustSub(s, l, v, b, frac, area) ==
  IF (s + l) < 0 - v
    THEN LET b2 == (b * (0 - (s + l))) \div v IN
         [SnowIce |-> 0, LakeIce |-> 0,
          vapor_flux |-> 0 - (s + l), blowing_flux |-> b2,
          surface_flux |-> (0 - (s + l)) - b2,
          dv |-> 0 - area * frac * l, vcase |-> "clamp"]
    ELSE IF s < 0 - v /\ (s + l) > 0 - v
    THEN [SnowIce |-> 0, LakeIce |-> l + (v + s),
          vapor_flux |-> v, blowing_flux |-> b, surface_flux |-> v,
          dv |-> area * frac * (v + s), vcase |-> "lake"]
    ELSE IF s > 0
    THEN [SnowIce |-> s + v, LakeIce |-> l,
          vapor_flux |-> v, blowing_flux |-> b, surface_flux |-> v,
          dv |-> 0, vcase |-> "snow"]
    ELSE [SnowIce |-> s, LakeIce |-> l,
          vapor_flux |-> v, blowing_flux |-> b, surface_flux |-> v,
          dv |-> area * frac * v, vcase |-> "volume"]

\* the reservoirs of the isothermal branch after the vapor adjustment
AfterVaporIso ==
  VaporAdjustIso(SnowIce, surf_water, LakeIce, snow_vapor_flux,
                 snow_blowing_flux, fracprv, surface0)

AfterVaporSub ==
  VaporAdjustSub(SnowIce, LakeIce, snow_vapor_flux, snow_blowing_flux,
                 fracprv, surface0)

ReconcileIsothermal ==
  LET a == AfterVaporIso
      r == MeltPartition(a.SnowIce, a.surf_water, a.LakeIce, SnowMelt) IN
  /\ branch = "iso"
  /\ snow_vapor_flux' = a.vapor_flux
  /\ snow_blowing_flux' = a.blowing_flux
  /\ snow_surface_flux' = IF a.vcase = "clamp" THEN a.surface_flux
                                               ELSE snow_surface_flux
  /\ volume' = volume + a.dv
  /\ vcase' = a.vcase
  /\ SnowIce' = r.SnowIce
  /\ surf_water' = r.surf_water
  /\ LakeIce' = r.LakeIce
  /\ SnowMelt' = r.SnowMelt
  /\ IceMelt' = r.IceMelt
  /\ mcase' = r.mcase

ReconcileSubfreezing ==
  LET a == AfterVaporSub IN
  /\ branch = "sub"
  /\ snow_vapor_flux' = a.vapor_flux
  /\ snow_blowing_flux' = a.blowing_flux
  /\ snow_surface_flux' = IF a.vcase = "clamp" THEN a.surface_flux
                                               ELSE snow_surface_flux
  /\ volume' = volume + a.dv
  /\ vcase' = a.vcase
  /\ SnowIce' = a.SnowIce
  /\ LakeIce' = a.LakeIce
  /\ UNCHANGED <<surf_water, SnowMelt, IceMelt, mcase>>

ReconcileReservoirs ==
  /\ pc = "ReconcileReservoirs"
  /\ \/ ReconcileIsothermal
     \/ ReconcileSubfreezing
  /\ pc' = "CapSurfaceLiquid"
  /\ UNCHANGED <<swq, surf_temp, mass_error, hice, fraci, forcingVars, outVars,
                 SnowFall, RainFall, InitialSwq, InitialIce, Qnet, RefreezeEnergy,
                 RefrozenWater, vapor_flux, surface_flux, diag,
                 pre, branch, nEval, nSolve>>

\* ---- CapSurfaceLiquid: lines 387-393 -----------------------------------
\* line 387
MaxLiquidWaterOf(ice) == LiquidCapacity(ice)

\* lines 388-393: the melt output (m) and the liquid water kept
MeltOf(w, cap) == IF w > cap THEN w - cap ELSE 0

\* variant: the excess is reported as melt but the liquid water is not clamped
KeptLiquidOf_NoClamp(w, cap) == w

KeptLiquidOf(w, cap) == IF w > cap THEN cap ELSE w

CapSurfaceLiquid ==
  /\ pc = "CapSurfaceLiquid"
  /\ melt' = MeltOf(surf_water, MaxLiquidWaterOf(SnowIce))
  /\ surf_water' = KeptLiquidOf(surf_water, MaxLiquidWaterOf(SnowIce))
  /\ pc' = "UpdateThickness"
  /\ UNCHANGED <<swq, snow_vapor_flux, snow_surface_flux, snow_blowing_flux,
                 surf_temp, mass_error, lakeVars, forcingVars,
                 save_refreeze_energy, save_Qnet, save_diag, localVars, histVars>>

\* ---- UpdateThickness: lines 397-403 ------------------------------------
\* variant: the water equivalent is stored as the thickness, unconverted
ThicknessOf_NoConversion(l) == l * RHOICE

\* line 398: thickness of the remaining lake ice
ThicknessOf(l) == l * RHO_W

\* variant: the ice fraction is kept when the thickness collapses to 0
UpdateThickness_KeepFraci ==
  /\ pc = "UpdateThickness"
  /\ swq' = SnowIce + surf_water
  /\ hice' = IF ThicknessOf(LakeIce) <= 0 THEN 0 ELSE ThicknessOf(LakeIce)
  /\ pc' = "ComputeMassBalance"
  /\ UNCHANGED <<fraci, surf_water, snow_vapor_flux, snow_surface_flux,
                 snow_blowing_flux, surf_temp, mass_error, volume, forcingVars,
                 outVars, localVars, histVars>>

\* lines 397-403: swq, hice and fraci at the end of the step
UpdateThickness ==
  /\ pc = "UpdateThickness"
  /\ swq' = SnowIce + surf_water
  /\ IF ThicknessOf(LakeIce) <= 0
       THEN hice' = 0 /\ fraci' = 0
       ELSE hice' = ThicknessOf(LakeIce) /\ UNCHANGED fraci
  /\ pc' = "ComputeMassBalance"
  /\ UNCHANGED <<surf_water, snow_vapor_flux, snow_surface_flux, snow_blowing_flux,
                 surf_temp, mass_error, volume, forcingVars, outVars, localVars,
                 histVars>>

\* ---- ComputeMassBalance: lines 423-437 ---------------------------------
\* lines 423-424
MassBalanceErrorOf(swq0, swq1, ice0, ice1, rain, snow, icemelt, m, v) ==
  (swq0 - swq1) + (ice0 - ice1) + (rain + snow) - icemelt - m + v

ComputeMassBalance ==
  /\ pc = "ComputeMassBalance"
  /\ mass_error' = MassBalanceErrorOf(InitialSwq, swq, InitialIce, LakeIce,
                                      RainFall, SnowFall, IceMelt, melt,
                                      snow_vapor_flux)
  /\ melt' = melt * MM_PER_M
  /\ snow_vapor_flux' = 0 - snow_vapor_flux
  /\ save_diag' = diag
  /\ save_Qnet' = Qnet
  /\ pc' = "Done"
  /\ UNCHANGED <<swq, surf_water, snow_surface_flux, snow_blowing_flux, surf_temp,
                 lakeVars, forcingVars, save_refreeze_energy, localVars, histVars>>

Next ==
  \/ Start
  \/ ComputeSurfaceFluxAtFreezing
  \/ Isothermal
  \/ SolveSubfreezing
  \/ ReconcileReservoirs
  \/ CapSurfaceLiquid
  \/ UpdateThickness
  \/ ComputeMassBalance

Spec == Init /\ [][Next]_vars

\* the same call started from any entry state, valid or not
SpecAnyInput == InitAnyInput /\ [][Next]_vars

\* ice_melt is one synchronous call: a phase that can run does run.  The
\* order of the phases depends on the entry state only through what the
\* residual function and the solver return, so fewer entry states are drawn.
FairSpec == InitFewInputs /\ [][Next]_vars /\ WF_vars(Next)

\* ======================= properties of one call ==========================
Completed == pc = "Done"
AfterReconcile ==
  pc \in {"CapSurfaceLiquid", "UpdateThickness", "ComputeMassBalance", "Done"}
\* fracprv * surface[0], the factor of every lake->volume adjustment
VolumeFactor == fracprv * surface0

\* C1: every completed call stores a zero mass balance error
\* (initial - final SWE) + (initial - final lake ice) + precipitation
\* - IceMelt - melt + vapor flux = 0.
C1_MassConserved == Completed => mass_error = 0

\* C2: after a completed call, snow->swq >= 0 and lake->hice >= 0.
C2_NonNegativeState == Completed => (swq >= 0 /\ hice >= 0)

\* C3: the cap step leaves surf_water = min(surf_water, cap) and
\* melt = max(0, surf_water - cap) with cap = LIQUID_WATER_CAPACITY * SnowIce;
\* on return melt is 1000 times that, melt >= 0, and surf_water is at most
\* LIQUID_WATER_CAPACITY * (swq - surf_water).
C3_LiquidCap ==
  [][ /\ pc = "CapSurfaceLiquid" =>
           /\ LWC_DEN * surf_water' =
                Min(LWC_DEN * surf_water, LWC_NUM * SnowIce)
           /\ LWC_DEN * melt' =
                Max(0, LWC_DEN * surf_water - LWC_NUM * SnowIce)
      /\ pc' = "Done" =>
           /\ melt' = MM_PER_M * melt
           /\ melt' >= 0
           /\ LWC_DEN * surf_water' <= LWC_NUM * (swq' - surf_water') ]_vars

C3_Witness ==
  /\ Completed
  /\ melt > 0
  /\ surf_water > 0
  /\ LWC_DEN * surf_water = LWC_NUM * (swq - surf_water)

\* C4: Qnet >= 0 at 0 degrees takes the isothermal branch and never invokes
\* root_brent; Qnet < 0 invokes root_brent.
C4_BranchSelection ==
  /\ pc \in {"Isothermal", "SolveSubfreezing"} =>
       (Qnet >= 0 <=> pc = "Isothermal")
  /\ branch = "iso" => nSolve = 0
  /\ branch = "sub" => nSolve = 1

\* C5 (as claimed): a root_brent result at or below -9998 ends the call on the
\* fatal path, which is final, and the call has then written none of swq,
\* hice, mass_error, melt and the save_* diagnostics.
C5_FatalWritesNothing ==
  /\ surf_temp <= SOLVER_SENTINEL => pc = "Fatal"
  /\ pc = "Fatal" =>
       /\ ~ ENABLED Next
       /\ swq = pre.swq /\ hice = pre.hice
       /\ mass_error = Unwritten /\ melt = Unwritten
       /\ save_Qnet = Unwritten /\ save_diag = Unwritten
       /\ save_refreeze_energy = Unwritten

\* C5 (amended): as above, except that save_refreeze_energy[0] holds the
\* refreeze energy of the evaluation at 0 degrees, written before the solver ran.
C5_FatalOnFailure ==
  /\ surf_temp <= SOLVER_SENTINEL => pc = "Fatal"
  /\ pc = "Fatal" =>
       /\ ~ ENABLED Next
       /\ swq = pre.swq /\ hice = pre.hice
       /\ mass_error = Unwritten /\ melt = Unwritten
       /\ save_Qnet = Unwritten /\ save_diag = Unwritten
       /\ save_refreeze_energy = RefreezeEnergy
       /\ save_refreeze_energy # Unwritten

C5_Witness ==
  /\ pc = "Fatal"
  /\ surf_temp = SOLVER_SENTINEL
  /\ nSolve = 1
  /\ save_refreeze_energy = 0 - MassUnit

\* C6: SnowIce and LakeIce are never negative after the vapor adjustment nor
\* after the snowmelt partition, and no negative IceMelt is recorded.
C6_ReservoirsNonNegative ==
  /\ (pc = "ReconcileReservoirs" /\ branch = "iso") =>
       (AfterVaporIso.SnowIce >= 0 /\ AfterVaporIso.LakeIce >= 0)
  /\ (pc = "ReconcileReservoirs" /\ branch = "sub") =>
       (AfterVaporSub.SnowIce >= 0 /\ AfterVaporSub.LakeIce >= 0)
  /\ AfterReconcile => (SnowIce >= 0 /\ LakeIce >= 0 /\ IceMelt >= 0)

\* the isothermal branch is about to melt at least all the ice that the vapor
\* adjustment leaves
MeltsThrough ==
  /\ pc = "ReconcileReservoirs"
  /\ branch = "iso"
  /\ SnowMelt >= AfterVaporIso.SnowIce + AfterVaporIso.LakeIce

\* C7 (as claimed): on complete melt-through snow ice and lake ice end at 0,
\* hice = 0, and the recorded IceMelt is the total ice, snow ice + lake ice.
C7_MeltThroughTotal ==
  [][ /\ MeltsThrough =>
           /\ SnowIce' = 0 /\ LakeIce' = 0
           /\ IceMelt' = AfterVaporIso.SnowIce + AfterVaporIso.LakeIce
      /\ (pc = "UpdateThickness" /\ mcase = "through") =>
           (hice' = 0 /\ swq' = surf_water') ]_vars

\* C7 (amended): on complete melt-through snow ice and lake ice end at 0,
\* hice = 0, the snowmelt is clamped to the total ice, and the recorded IceMelt
\* is the lake ice alone; the snow ice goes to the surface liquid water.
C7_MeltThrough ==
  [][ /\ MeltsThrough =>
           /\ SnowIce' = 0 /\ LakeIce' = 0
           /\ SnowMelt' = AfterVaporIso.SnowIce + AfterVaporIso.LakeIce
           /\ IceMelt' = AfterVaporIso.LakeIce
           /\ surf_water' = AfterVaporIso.surf_water + AfterVaporIso.SnowIce
           /\ mcase' = "through"
      /\ (pc = "UpdateThickness" /\ mcase = "through") =>
           (hice' = 0 /\ swq' = surf_water') ]_vars

\* snow ice 0.002 m, lake ice 0.01 m, computed snowmelt 0.02 m, in units of
\* 0.002 m: IceMelt 0.01 m, snowmelt clamped to 0.012 m
C7_Witness ==
  /\ Completed
  /\ mcase = "through"
  /\ RefreezeEnergy = 0 - 5 * MassUnit /\ delta_t = 2
  /\ vapor_flux = 0
  /\ InitialIce = 5 * MassUnit
  /\ SnowMelt = 6 * MassUnit
  /\ IceMelt = 5 * MassUnit
  /\ hice = 0 /\ swq = surf_water

\* C8: when snow ice + surface liquid < -vapor_flux < snow ice + surface
\* liquid + lake ice, snow ice becomes 0, lake ice loses exactly
\* -vapor_flux - snow ice - surface liquid and stays >= 0, and lake volume
\* is adjusted by that amount times fracprv * surface[0].
C8_LakeIceFillsGap ==
  /\ (/\ pc = "ReconcileReservoirs" /\ branch = "iso"
      /\ SnowIce + surf_water < 0 - snow_vapor_flux
      /\ 0 - snow_vapor_flux < SnowIce + surf_water + LakeIce) =>
       LET gap == (0 - snow_vapor_flux) - SnowIce - surf_water IN
       /\ AfterVaporIso.SnowIce = 0
       /\ AfterVaporIso.LakeIce = LakeIce - gap
       /\ AfterVaporIso.LakeIce >= 0
       /\ AfterVaporIso.dv = 0 - gap * VolumeFactor
  /\ (/\ pc = "ReconcileReservoirs" /\ branch = "sub"
      /\ SnowIce + surf_water < 0 - snow_vapor_flux
      /\ 0 - snow_vapor_flux < SnowIce + surf_water + LakeIce) =>
       LET gap == (0 - snow_vapor_flux) - SnowIce - surf_water IN
       /\ AfterVaporSub.SnowIce = 0
       /\ AfterVaporSub.LakeIce = LakeIce - gap
       /\ AfterVaporSub.LakeIce >= 0
       /\ AfterVaporSub.dv = 0 - gap * VolumeFactor

\* C9: with no rain, no snow, Qnet = 0, refreeze energy = 0 and vapor flux = 0
\* at 0 degrees, and surf_water within the liquid water capacity of the snow
\* ice, a call leaves swq, surf_water, hice and volume as they were and
\* returns melt = 0.
ZeroForcing ==
  /\ rainfall = 0 /\ snowfall = 0
  /\ branch = "iso" /\ Qnet = 0
  /\ save_refreeze_energy = 0
  /\ vapor_flux = 0
  /\ LWC_DEN * pre.surf_water <= LWC_NUM * (pre.swq - pre.surf_water)

C9_IdempotentUnderZeroForcing ==
  (Completed /\ ZeroForcing) =>
    /\ swq = pre.swq
    /\ surf_water = pre.surf_water
    /\ hice = pre.hice
    /\ volume = pre.volume
    /\ melt = 0

C9_Witness ==
  /\ Completed /\ ZeroForcing
  /\ pre.surf_water > 0
  /\ pre.hice > 0
  /\ swq = pre.swq /\ hice = pre.hice /\ melt = 0

\* C10 (as claimed): lake->volume changes by the lake-ice mass moved by the
\* step (vapor draw or melt) times fracprv * surface[0], and only then.
C10_VolumeTracksLakeIce ==
  Completed =>
    Abs(pre.volume - volume) = VolumeFactor * Abs(InitialIce - LakeIce)

\* C10 (amended): lake->volume decreases by fracprv * surface[0] times the
\* lake ice drawn by the vapor adjustment (the loss of lake ice that is not
\* IceMelt); melting lake ice leaves it unchanged; in the subfreezing branch
\* with no snow ice and no draw on lake ice the vapor flux itself is applied
\* to the volume.
C10_VolumeTracksVaporDraw ==
  Completed =>
    pre.volume - volume =
      VolumeFactor * ((InitialIce - LakeIce - IceMelt)
                      + (IF vcase = "volume" THEN 0 - vapor_flux ELSE 0))

C10_Witness ==
  /\ Completed
  /\ vcase = "lake"
  /\ IceMelt > 0
  /\ LakeIce > 0
  /\ volume = pre.volume - VolumeFactor * (InitialIce - LakeIce - IceMelt)
  /\ volume # pre.volume

\* C11: when the total available mass is less than -vapor_flux, the vapor flux
\* is clamped to minus that total, blowing_flux stays 0, surface_flux is the
\* clamped vapor flux, snow ice and lake ice become 0, lake volume loses the
\* lake ice times fracprv * surface[0], and the step ends with swq = 0,
\* hice = 0, fraci = 0 and nothing of the clamped total delivered as melt.
C11_TotalExhaustionClamp ==
  /\ (/\ pc = "ReconcileReservoirs" /\ branch = "iso"
      /\ SnowIce + surf_water + LakeIce < 0 - snow_vapor_flux) =>
       /\ AfterVaporIso.vapor_flux = 0 - (SnowIce + surf_water + LakeIce)
       /\ AfterVaporIso.blowing_flux = 0
       /\ AfterVaporIso.surface_flux = AfterVaporIso.vapor_flux
       /\ AfterVaporIso.SnowIce = 0 /\ AfterVaporIso.LakeIce = 0
       /\ AfterVaporIso.dv = 0 - LakeIce * VolumeFactor
  /\ (/\ pc = "ReconcileReservoirs" /\ branch = "sub"
      /\ SnowIce + LakeIce < 0 - snow_vapor_flux) =>
       /\ AfterVaporSub.vapor_flux = 0 - (SnowIce + LakeIce)
       /\ AfterVaporSub.blowing_flux = 0
       /\ AfterVaporSub.surface_flux = AfterVaporSub.vapor_flux
       /\ AfterVaporSub.SnowIce = 0 /\ AfterVaporSub.LakeIce = 0
       /\ AfterVaporSub.dv = 0 - LakeIce * VolumeFactor
  /\ (AfterReconcile /\ vcase = "clamp") =>
       (SnowIce = 0 /\ LakeIce = 0 /\ snow_blowing_flux = 0)
  /\ (Completed /\ vcase = "clamp") =>
       (swq = 0 /\ hice = 0 /\ fraci = 0 /\ melt = 0)

\* C12: whenever the solver is used and converges, the whole surface liquid
\* (prior surf_water plus rainfall) is added to the snow ice before the vapor
\* adjustment, snowmelt is 0, no lake ice melts (IceMelt = 0), and the step
\* ends with surf_water = 0 and melt = 0.
C12_SubfreezingFreezesAllLiquid ==
  /\ (pc = "ReconcileReservoirs" /\ branch = "sub") =>
       /\ RefrozenWater = pre.surf_water + RainFall
       /\ SnowIce = (pre.swq - pre.surf_water) + SnowFall + RefrozenWater
       /\ surf_water = 0
       /\ SnowMelt = 0
  /\ (AfterReconcile /\ branch = "sub") => (SnowMelt = 0 /\ IceMelt = 0)
  /\ (Completed /\ branch = "sub") => (surf_water = 0 /\ melt = 0)

\* C13: the isothermal snowmelt partition acts on the reservoirs left by the
\* vapor adjustment.  SnowMelt < SnowIce: snow ice loses SnowMelt, surface
\* liquid gains it, lake ice is unchanged, IceMelt = 0.  SnowIce <= SnowMelt <
\* SnowIce + LakeIce: snow ice becomes 0, surface liquid gains the snow ice,
\* lake ice loses SnowMelt - SnowIce, which is IceMelt.  Otherwise SnowMelt is
\* clamped to SnowIce + LakeIce, both reservoirs become 0, surface liquid gains
\* the snow ice and IceMelt is the whole lake ice.  In every case
\* 0 <= IceMelt <= lake ice before the partition.
C13_PartitionStep ==
  (pc = "ReconcileReservoirs" /\ branch = "iso") =>
    LET s == AfterVaporIso.SnowIce
        w == AfterVaporIso.surf_water
        l == AfterVaporIso.LakeIce
        m == SnowMelt
    IN /\ (m < s) =>
            /\ SnowIce' = s - m /\ surf_water' = w + m
            /\ LakeIce' = l /\ IceMelt' = 0 /\ SnowMelt' = m
       /\ (m >= s /\ m < s + l) =>
            /\ SnowIce' = 0 /\ surf_water' = w + s
            /\ LakeIce' = l - (m - s) /\ IceMelt' = m - s /\ SnowMelt' = m
       /\ (m >= s /\ m >= s + l) =>
            /\ SnowIce' = 0 /\ surf_water' = w + s
            /\ LakeIce' = 0 /\ IceMelt' = l /\ SnowMelt' = s + l
       /\ IceMelt' >= 0
       /\ IceMelt' <= l

C13_SnowmeltPartition == [][C13_PartitionStep]_vars

\* C14: in the isothermal branch with RefreezeEnergy >= 0 the refrozen water
\* is min(RefreezeEnergy converted to a depth of water, surf_water), it moves
\* from the surface liquid to the snow ice, SnowMelt is 0, and the assertion
\* snow->surf_water >= 0.0 after the subtraction holds on every execution,
\* from any entry state, valid or not.
C14_RefreezeStep ==
  (pc = "Isothermal" /\ RefreezeEnergy >= 0) =>
    LET r == Min(EnergyToWater(RefreezeEnergy, delta_t), surf_water)
    IN /\ RefrozenWater' = r
       /\ surf_water' = surf_water - r
       /\ SnowIce' = SnowIce + r
       /\ swq' = swq + r
       /\ SnowMelt' = 0
       /\ surf_water' >= 0
       /\ pc' # "Aborted"

C14_RefreezeCap == [][C14_RefreezeStep]_vars

\* a refreeze that started from a negative surf_water and was capped at it
C14_Witness ==
  /\ pc = "ReconcileReservoirs" /\ branch = "iso"
  /\ pre.surf_water < 0
  /\ RefrozenWater < 0
  /\ surf_water = 0

\* C15: in the isothermal branch, when snow ice + surface liquid covers
\* -vapor_flux, the flux is taken from the surface liquid first and the snow
\* ice is reduced only by the shortfall (-vapor_flux - surface liquid, when
\* positive); lake ice and lake->volume are left unchanged by the adjustment,
\* and snow ice and surface liquid both remain >= 0.
C15_VaporWithoutLakeIce ==
  /\ (/\ pc = "ReconcileReservoirs" /\ branch = "iso"
      /\ SnowIce + surf_water >= 0 - snow_vapor_flux) =>
       LET demand == 0 - snow_vapor_flux
           shortfall == Max(demand - surf_water, 0)
       IN /\ AfterVaporIso.vcase \in {"snow", "liquid"}
          /\ AfterVaporIso.surf_water = surf_water - (demand - shortfall)
          /\ AfterVaporIso.SnowIce = SnowIce - shortfall
          /\ AfterVaporIso.LakeIce = LakeIce
          /\ AfterVaporIso.dv = 0
          /\ AfterVaporIso.vapor_flux = snow_vapor_flux
          /\ AfterVaporIso.SnowIce >= 0
          /\ AfterVaporIso.surf_water >= 0
  /\ (AfterReconcile /\ branch = "iso" /\ vcase \in {"snow", "liquid"}) =>
       (volume = pre.volume /\ LakeIce + IceMelt = InitialIce)

\* sublimation larger than the surface liquid, the rest taken from snow ice
C15_Witness ==
  /\ AfterReconcile /\ branch = "iso" /\ vcase = "snow"
  /\ snow_vapor_flux < 0
  /\ RainFall + pre.surf_water > 0
  /\ 0 - snow_vapor_flux > RainFall + pre.surf_water - RefrozenWater
  /\ (pre.swq - pre.surf_water) + SnowFall + RainFall + pre.surf_water
       >= 0 - snow_vapor_flux
  /\ volume = pre.volume

\* C16: on return from a completed call the stored sublimation fluxes
\* snow->vapor_flux, snow->surface_flux and snow->blowing_flux are all
\* sign-inverted relative to the internal values used in the reservoir
\* accounting and in the mass-balance residual; in particular the stored
\* vapor_flux is minus the internal vapor flux after any clamping.
C16_InversionStep ==
  (pc = "ComputeMassBalance") =>
    /\ snow_vapor_flux' = 0 - snow_vapor_flux
    /\ snow_surface_flux' = 0 - snow_surface_flux
    /\ snow_blowing_flux' = 0 - snow_blowing_flux

C16_SignConvention == [][C16_InversionStep]_vars

\* C17: after every completed call lake->hice is the remaining lake-ice water
\* equivalent times RHO_W / RHOICE when that is positive; when the resulting
\* thickness is <= 0 both lake->hice and lake->fraci are 0 (so hice = 0
\* implies fraci = 0); when it is > 0, lake->fraci is left unchanged by the
\* step.  (hice is held in units of 1/RHOICE.)
C17_ThicknessAndFraction ==
  Completed =>
    /\ (LakeIce * RHO_W > 0) => (hice = LakeIce * RHO_W /\ fraci = pre.fraci)
    /\ (LakeIce * RHO_W <= 0) => (hice = 0 /\ fraci = 0)
    /\ (hice = 0) => (fraci = 0)
    /\ hice >= 0

\* ice that covered part of the lake at entry is gone at the end of the step
C17_Witness ==
  /\ Completed
  /\ pre.hice > 0 /\ pre.fraci > 0
  /\ hice = 0 /\ fraci = 0

\* the phases that may follow a phase
NextPhases(p) ==
  CASE p = "Start" -> {"ComputeSurfaceFluxAtFreezing"}
    [] p = "ComputeSurfaceFluxAtFreezing" -> {"Isothermal", "SolveSubfreezing"}
    [] p = "Isothermal" -> {"ReconcileReservoirs"}
    [] p = "SolveSubfreezing" -> {"ReconcileReservoirs", "Fatal"}
    [] p = "ReconcileReservoirs" -> {"CapSurfaceLiquid"}
    [] p = "CapSurfaceLiquid" -> {"UpdateThickness"}
    [] p = "UpdateThickness" -> {"ComputeMassBalance"}
    [] p = "ComputeMassBalance" -> {"Done"}
    [] OTHER -> {}

C18_PhaseStep ==
  /\ pc' \in NextPhases(pc)
  /\ nSolve' = nSolve + (IF pc = "SolveSubfreezing" THEN 1 ELSE 0)
  /\ (pc' = "Fatal") => (nEval' = nEval)

C18_Counts ==
  /\ nSolve <= 1
  /\ (pc = "Start") => (nEval = 0 /\ nSolve = 0)
  /\ (pc = "Fatal") => (nEval = 1 /\ nSolve = 1 /\ branch = "sub")
  /\ (Completed /\ branch = "iso") =>
       (nEval = 1 /\ nSolve = 0 /\ surf_temp = 0 /\ save_diag = 1)
  /\ (Completed /\ branch = "sub") =>
       (nEval = 2 /\ nSolve = 1 /\ ~SolverFailed(surf_temp) /\ save_diag = 3)
  /\ Completed =>
       (branch \in {"iso", "sub"} /\ save_Qnet = Qnet /\ save_refreeze_energy # Unwritten)

\* C18: every call passes through the phases in the order Start,
\* ComputeSurfaceFluxAtFreezing, exactly one of Isothermal or SolveSubfreezing,
\* ReconcileReservoirs, CapSurfaceLiquid, UpdateThickness, ComputeMassBalance,
\* Done, and eventually reaches Done or ends on the fatal path; the solver is
\* invoked at most once, the residual function is evaluated directly exactly
\* once on the isothermal path and exactly twice on the subfreezing path, and
\* the diagnostics returned come from the last evaluation.
C18_ControlFlow ==
  /\ [][C18_PhaseStep]_vars
  /\ []C18_Counts
  /\ <>(pc \in {"Done", "Fatal"})

\* a subfreezing call that solved once, evaluated twice and returned
C18_Witness ==
  /\ Completed /\ branch = "sub"
  /\ nEval = 2 /\ nSolve = 1 /\ save_diag = 3

\* the states in which the residual function is about to be evaluated: at 0
\* degrees, and by the solver and at the solved temperature
BeforeEvaluation == pc \in {"ComputeSurfaceFluxAtFreezing", "SolveSubfreezing"}

\* C19: in every evaluation of the residual function within one call the
\* ice-mass argument is the current snow-ice mass, i.e. prior snow ice
\* (swq - surf_water) plus this step's snowfall, plus the lake-ice water
\* equivalent, and the liquid argument is the current surface liquid water,
\* i.e. prior surf_water plus this step's rainfall; all evaluations of one
\* call receive the same two values.
C19_ThermalMass ==
  BeforeEvaluation =>
    /\ SweSurfaceLayerArg = ((pre.swq - pre.surf_water) + SnowFall) + LakeIce
    /\ SweSurfaceLayerArg = SnowIce + LakeIce
    /\ SurfaceLiquidWaterArg = pre.surf_water + RainFall
    /\ SweSurfaceLayerArg = InitialSwq + InitialIce
====
